---- MODULE Spec2Model ----
(***************************************************************************)
(* A model of lib/plugin.js of locator-yui: the module registry, the      *)
(* build-target resolver (_buildsInBundle), the loader-metadata compiler   *)
(* (_getLoaderData and its two views) and the bundleUpdated pipeline.      *)
(*                                                                         *)
(* JavaScript strings are tuples of one-character strings, so that         *)
(* sorting, indexOf and the path functions are computed character by      *)
(* character as the code computes them.  A JavaScript object is a          *)
(* sequence of [key, val] entries in insertion order.  An optional value   *)
(* (undefined or a value) is the empty tuple or a one-element tuple.       *)
(***************************************************************************)
EXTENDS Integers, Sequences, FiniteSets, TLC

\* ------------------------------------------------------------- bounds

\* longest list of modified files an event carries
MaxModified == 2
\* longest list of json files the host lists for an event
MaxJson == 2
\* change events handled by one plugin instance
MaxEvents == 2
\* calls of _register on their own
MaxRegisters == 3

\* ------------------------------------------------------- JS primitives

None == <<>>
Some(v) == <<v>>
IsSome(o) == Len(o) = 1
Val(o) == o[1]

Range(s) == {s[i] : i \in 1..Len(s)}

\* UTF-16 code units of the characters the model's strings use
CharCode ==
  "-" :> 45 @@ "." :> 46 @@ "/" :> 47 @@
  "a" :> 97 @@ "b" :> 98 @@ "c" :> 99 @@ "d" :> 100 @@ "e" :> 101 @@
  "i" :> 105 @@ "j" :> 106 @@ "k" :> 107 @@ "l" :> 108 @@ "m" :> 109 @@
  "n" :> 110 @@ "o" :> 111 @@ "r" :> 114 @@ "s" :> 115 @@ "t" :> 116 @@
  "u" :> 117 @@ "x" :> 120 @@ "y" :> 121

\* a < b in the order of Array.prototype.sort without a comparator:
\* code unit by code unit, a proper prefix first
StrLess(a, b) ==
  \E i \in 1..(Len(a) + 1) :
    /\ \A j \in 1..(i - 1) : j <= Len(b) /\ a[j] = b[j]
    /\ \/ i = Len(a) + 1 /\ Len(b) >= i
       \/ i <= Len(a) /\ i <= Len(b) /\ CharCode[a[i]] < CharCode[b[i]]

RECURSIVE InsertSorted(_, _)
InsertSorted(x, s) ==
  IF s = <<>> THEN <<x>>
  ELSE IF StrLess(Head(s), x) \/ Head(s) = x
       THEN <<Head(s)>> \o InsertSorted(x, Tail(s))
       ELSE <<x>> \o s

RECURSIVE JsSort(_)
\* list.sort(): the list in ascending code-unit order
JsSort(s) == IF s = <<>> THEN <<>> ELSE InsertSorted(Head(s), JsSort(Tail(s)))

\* s.indexOf(sub): the 0-based index of the first occurrence, -1 when none
IndexOf(s, sub) ==
  LET hits == {i \in 1..(Len(s) - Len(sub) + 1) :
                 SubSeq(s, i, i + Len(sub) - 1) = sub}
  IN IF hits = {} THEN -1
     ELSE (CHOOSE i \in hits : \A j \in hits : i <= j) - 1

\* the position of the last ch in s, 0 when none
LastPos(s, ch) ==
  LET at == {i \in 1..Len(s) : s[i] = ch}
  IN IF at = {} THEN 0 ELSE CHOOSE i \in at : \A j \in at : j <= i

RECURSIVE StripSlashes(_)
\* s without its trailing slashes (a lone root slash is kept)
StripSlashes(s) ==
  IF Len(s) > 1 /\ s[Len(s)] = "/" THEN StripSlashes(SubSeq(s, 1, Len(s) - 1))
  ELSE s

\* path.basename(p)
Basename(p) ==
  LET q == StripSlashes(p)
  IN IF q = <<"/">> THEN <<>> ELSE SubSeq(q, LastPos(q, "/") + 1, Len(q))

\* path.dirname(p)
Dirname(p) ==
  LET q == StripSlashes(p)
      i == LastPos(q, "/")
  IN IF i = 0 THEN <<".">>
     ELSE IF i = 1 THEN <<"/">>
     ELSE SubSeq(q, 1, i - 1)

\* path.extname(p): from the last dot of the base name, empty when the base
\* name has no dot or only a leading one
Extname(p) ==
  LET base == Basename(p)
      i == LastPos(base, ".")
  IN IF i <= 1 \/ base = <<".", ".">> THEN <<>> ELSE SubSeq(base, i, Len(base))

\* ------------------------------------------------ JS objects (ordered)

ObjKeys(o) == [i \in 1..Len(o) |-> o[i].key]
ObjHas(o, k) == \E i \in 1..Len(o) : o[i].key = k
\* o[k] of a key the object has
ObjGet(o, k) == o[CHOOSE i \in 1..Len(o) : o[i].key = k].val
\* o[k] = v: an own key keeps its place, a new key goes last
ObjSet(o, k, v) ==
  IF ObjHas(o, k)
  THEN [i \in 1..Len(o) |-> IF o[i].key = k THEN [key |-> k, val |-> v] ELSE o[i]]
  ELSE Append(o, [key |-> k, val |-> v])

\* ------------------------------------------------- the files of the model

JsExt == <<".", "j", "s">>
BuildJson == <<"b", "u", "i", "l", "d", ".", "j", "s", "o", "n">>
LoaderPrefix == <<"l", "o", "a", "d", "e", "r", "-">>

Join(dir, base) == dir \o <<"/">> \o base

DirA == <<"/", "a">>
DirAB == <<"/", "a", "b">>
DirOut == Join(DirA, <<"o">>)

\* the bundle the host hands to the plugin: its name and build directory
BundleB == [name |-> <<"b">>, buildDirectory |-> DirOut]
\* a second bundle of the same host, built into a directory of its own
BundleC == [name |-> <<"c">>, buildDirectory |-> Join(DirAB, <<"o">>)]
Bundles == {BundleB, BundleC}
BundleNames == {bd.name : bd \in Bundles}

\* a module beside the descriptor of /a
FileM == Join(DirA, <<"m">> \o JsExt)
\* a module of the sibling directory /ab
FileN == Join(DirAB, <<"n">> \o JsExt)
\* a built file inside the build directory /a/o
FileK == Join(DirOut, <<"k">> \o JsExt)
\* the generated meta-module of bundle b
FileL == Join(DirA, LoaderPrefix \o BundleB.name \o JsExt)
\* the descriptors of /a and of /ab
FileD == Join(DirA, BuildJson)
FileE == Join(DirAB, BuildJson)
\* a json file that is no descriptor
FileT == Join(DirA, <<"t", ".", "j", "s", "o", "n">>)

Paths == {FileM, FileN, FileK, FileL, FileD, FileE, FileT}
\* the files the change events of the pipeline are about
EventPaths == {FileM, FileD}
JsonPaths == {f \in Paths : Extname(f) = <<".", "j", "s", "o", "n">>}

\* the lists of at most n elements of S
SeqUpTo(S, n) == UNION {[1..k -> S] : k \in 0..n}

\* ------------------------------------- the external module builder's checks

\* the base name without its extension
Stem(f) == SubSeq(Basename(f), 1, Len(Basename(f)) - Len(Extname(f)))

\* a Module Metadata Record: name, buildfile and the build variants, each
\* with a config carrying an affinity ("unset" when the config has none)
Record(n, f, bs) == [name |-> n, buildfile |-> f, builds |-> bs]
Variant(k, a) == [key |-> k, val |-> [config |-> [affinity |-> a]]]

\* what the module-file check can answer for a .js file: negative, or the
\* record of the one module the file adds
ModuleOutcomes(f) ==
  {None} \cup {Some(Record(Stem(f), f, <<Variant(Stem(f), a)>>)) :
                 a \in {"unset", "client"}}

\* what the descriptor check can answer for a build.json: negative, or the
\* record of its builds
DescriptorOutcomes(f) ==
  {None} \cup {Some(Record(Basename(Dirname(f)), f, bs)) :
                 bs \in {<<Variant(<<"x">>, "server")>>,
                         <<Variant(<<"x">>, "server"), Variant(<<"y">>, "client")>>}}

\* what the checks can answer for one file of an event: a .js file gets the
\* module check (which would accept a generated meta-module), a listed
\* build.json the descriptor check, and no other file is ever asked about
Outcomes(f, jsonFiles) ==
  IF Extname(f) = JsExt
  THEN IF IndexOf(Basename(f), LoaderPrefix) = 0
       THEN ModuleOutcomes(f) \ {None}
       ELSE ModuleOutcomes(f)
  ELSE IF Basename(f) = BuildJson /\ f \in Range(jsonFiles)
       THEN DescriptorOutcomes(f)
       ELSE {None}

RECURSIVE AnswersOver(_, _)
\* the functions that give every file of the set asked one of its outcomes
AnswersOver(asked, jsonFiles) ==
  IF asked = {} THEN {<<>>}
  ELSE LET f == CHOOSE g \in asked : TRUE
       IN {(f :> o) @@ rest : o \in Outcomes(f, jsonFiles),
                              rest \in AnswersOver(asked \ {f}, jsonFiles)}

\* the answers of the two checks during one event, file by file
CheckAnswers(files, jsonFiles) ==
  AnswersOver(Range(files) \cup Range(jsonFiles), jsonFiles)

\* shifter._checkYUIModule(file) and shifter._checkBuildFile(file)
CheckYUIModule(chk, file) == chk[file]
CheckBuildFile(chk, file) == chk[file]

\* utils.filterFilesInBundle(bundle, list, filter): the whole list when no
\* filter is configured, else the files the filter accepts
FilterFilesInBundle(bundle, list, filter) ==
  IF ~IsSome(filter) THEN list
  ELSE SelectSeq(list, LAMBDA f : f \in Val(filter))

\* ------------------------------------------------------------ the registry

\* this._bundles[bundleName] || {}
BundleMeta(registry, bundleName) ==
  IF ObjHas(registry, bundleName) THEN ObjGet(registry, bundleName) ELSE <<>>

\* Register starting the bundle's map afresh at every call
RegisterFresh(registry, bundleName, cacheKey, mod) ==
  ObjSet(registry, bundleName, ObjSet(<<>>, cacheKey, mod))

\* _register(bundleName, cacheKey, mod) on the registry
Register(registry, bundleName, cacheKey, mod) ==
  ObjSet(registry, bundleName,
         ObjSet(BundleMeta(registry, bundleName), cacheKey, mod))

\* ------------------------------------------------- the build-set resolver

\* the name of the generated meta-module of a bundle
MetaModuleName(bundleName) == LoaderPrefix \o bundleName

\* ModuleStep targeting a module without registering it
ModuleStepUnregistered(st, bundle, file, chk) ==
  IF Extname(file) = JsExt /\ Basename(file) # MetaModuleName(bundle.name) \o JsExt
  THEN IF IsSome(CheckYUIModule(chk, file))
       THEN [reg |-> st.reg, builds |-> ObjSet(st.builds, file, TRUE)]
       ELSE st
  ELSE st

\* ModuleStep without the exclusion of the meta-module
ModuleStepAnyJs(st, bundle, file, chk) ==
  IF Extname(file) = JsExt
  THEN LET mod == CheckYUIModule(chk, file)
       IN IF IsSome(mod)
          THEN [reg |-> Register(st.reg, bundle.name, file, Val(mod)),
                builds |-> ObjSet(st.builds, file, TRUE)]
          ELSE st
  ELSE st

\* one pass of the first loop: a modified .js file that is not the
\* meta-module is checked, and registered and targeted when it is a module
ModuleStep(st, bundle, file, chk) ==
  IF Extname(file) = JsExt /\ Basename(file) # MetaModuleName(bundle.name) \o JsExt
  THEN LET mod == CheckYUIModule(chk, file)
       IN IF IsSome(mod)
          THEN [reg |-> Register(st.reg, bundle.name, file, Val(mod)),
                builds |-> ObjSet(st.builds, file, TRUE)]
          ELSE st
  ELSE st

RECURSIVE ModuleLoopAborting(_, _, _, _, _)
\* ModuleLoop leaving the loop at the first file the module check rejects
ModuleLoopAborting(st, bundle, modifiedFiles, m, chk) ==
  IF m > Len(modifiedFiles) THEN st
  ELSE IF Extname(modifiedFiles[m]) = JsExt /\ ~IsSome(CheckYUIModule(chk, modifiedFiles[m]))
       THEN st
       ELSE ModuleLoopAborting(ModuleStep(st, bundle, modifiedFiles[m], chk),
                               bundle, modifiedFiles, m + 1, chk)

RECURSIVE ModuleLoop(_, _, _, _, _)
\* the first loop of _buildsInBundle, from index m on
ModuleLoop(st, bundle, modifiedFiles, m, chk) ==
  IF m > Len(modifiedFiles) THEN st
  ELSE ModuleLoop(ModuleStep(st, bundle, modifiedFiles[m], chk),
                  bundle, modifiedFiles, m + 1, chk)

\* file.indexOf(dir) === 0 of the inner loop
UnderDir(file, dir) == IndexOf(file, dir) = 0
\* file.indexOf(bundle.buildDirectory) === -1 of the inner loop
OutsideBuild(file, bundle) == IndexOf(file, bundle.buildDirectory) = -1

\* one pass of the inner loop: the modified file is the descriptor itself,
\* or a .js file in the range of its directory and not of the build directory
TouchStep(builds, bundle, jsonFile, dir, file) ==
  LET b1 == IF file = jsonFile THEN ObjSet(builds, jsonFile, TRUE) ELSE builds
  IN IF Extname(file) = JsExt /\ UnderDir(file, dir) /\ OutsideBuild(file, bundle)
     THEN ObjSet(b1, jsonFile, TRUE)
     ELSE b1

RECURSIVE TouchLoop(_, _, _, _, _, _)
\* the inner loop over the modified files, from index m on
TouchLoop(builds, bundle, jsonFile, dir, modifiedFiles, m) ==
  IF m > Len(modifiedFiles) THEN builds
  ELSE TouchLoop(TouchStep(builds, bundle, jsonFile, dir, modifiedFiles[m]),
                 bundle, jsonFile, dir, modifiedFiles, m + 1)

\* DescriptorStep taking a descriptor off the registry when its check fails
DescriptorStepDropping(st, bundle, jsonFile, modifiedFiles, chk) ==
  IF Basename(jsonFile) = BuildJson
  THEN LET mod == CheckBuildFile(chk, jsonFile)
       IN IF IsSome(mod)
          THEN [reg |-> Register(st.reg, bundle.name, jsonFile, Val(mod)),
                builds |-> TouchLoop(st.builds, bundle, jsonFile,
                                     Dirname(jsonFile), modifiedFiles, 1)]
          ELSE [reg |-> ObjSet(st.reg, bundle.name,
                               SelectSeq(BundleMeta(st.reg, bundle.name),
                                         LAMBDA en : en.key # jsonFile)),
                builds |-> st.builds]
  ELSE st

\* DescriptorStep registering a descriptor only when it becomes a target
DescriptorStepTargetedOnly(st, bundle, jsonFile, modifiedFiles, chk) ==
  IF Basename(jsonFile) = BuildJson
  THEN LET mod == CheckBuildFile(chk, jsonFile)
           touched == TouchLoop(st.builds, bundle, jsonFile,
                                Dirname(jsonFile), modifiedFiles, 1)
       IN IF IsSome(mod) /\ ObjHas(touched, jsonFile)
          THEN [reg |-> Register(st.reg, bundle.name, jsonFile, Val(mod)),
                builds |-> touched]
          ELSE st
  ELSE st

\* one pass of the second loop: a build.json that passes the descriptor
\* check is targeted when touched, and registered either way
DescriptorStep(st, bundle, jsonFile, modifiedFiles, chk) ==
  IF Basename(jsonFile) = BuildJson
  THEN LET mod == CheckBuildFile(chk, jsonFile)
       IN IF IsSome(mod)
          THEN [reg |-> Register(st.reg, bundle.name, jsonFile, Val(mod)),
                builds |-> TouchLoop(st.builds, bundle, jsonFile,
                                     Dirname(jsonFile), modifiedFiles, 1)]
          ELSE st
  ELSE st

RECURSIVE DescriptorLoop(_, _, _, _, _, _)
\* the second loop of _buildsInBundle, from index i on
DescriptorLoop(st, bundle, jsonFiles, i, modifiedFiles, chk) ==
  IF i > Len(jsonFiles) THEN st
  ELSE DescriptorLoop(DescriptorStep(st, bundle, jsonFiles[i], modifiedFiles, chk),
                      bundle, jsonFiles, i + 1, modifiedFiles, chk)

\* TargetList without the final sort
TargetListUnsorted(builds) == ObjKeys(builds)

\* the list the resolver returns: Object.keys(builds).sort()
TargetList(builds) == JsSort(ObjKeys(builds))

\* the order the resolver processes a list in: list.sort()
ScanOrder(list) == JsSort(list)

\* _buildsInBundle(bundle, modifiedFiles, jsonFiles) on the registry:
\* the targets it returns and the registry it leaves
BuildsInBundle(registry, bundle, modifiedFiles, jsonFiles, chk) ==
  LET mf == ScanOrder(modifiedFiles)
      jf == ScanOrder(jsonFiles)
      s1 == ModuleLoop([reg |-> registry, builds |-> <<>>], bundle, mf, 1, chk)
      s2 == DescriptorLoop(s1, bundle, jf, 1, mf, chk)
  IN [builds |-> TargetList(s2.builds), reg |-> s2.reg]

\* ------------------------------------------- the loader-metadata compiler

\* ServerFilter keeping only the variants tagged server
ServerFilterTagged(name, config) == config.affinity = "server"

\* the filter of the server view
ServerFilter(name, config) == config.affinity # "client"
\* the filter of the client view
ClientFilter(name, config) == config.affinity # "server"

\* filter(name, config) for the filter function of a view
ApplyFilter(view, name, config) ==
  IF view = "server" THEN ServerFilter(name, config) ELSE ClientFilter(name, config)

\* FilteredEntry keeping every variant of the record
FilteredEntryWhole(entry, view) ==
  [key |-> entry.key,
   val |-> [name |-> entry.val.name,
            buildfile |-> entry.val.buildfile,
            builds |-> IF \E i \in 1..Len(entry.val.builds) :
                            ApplyFilter(view, entry.val.name, entry.val.builds[i].val.config)
                       THEN entry.val.builds ELSE <<>>]]

\* the variants of one registered record that pass the filter, as the
\* entry the loops of _getLoaderData build for it in buildMeta
FilteredEntry(entry, view) ==
  [key |-> entry.key,
   val |-> [name |-> entry.val.name,
            buildfile |-> entry.val.buildfile,
            builds |-> SelectSeq(entry.val.builds,
                                 LAMBDA v : ApplyFilter(view, entry.val.name, v.val.config))]]

RECURSIVE AllRecords(_)
\* the records of every bundle of a registry, one bundle after the other
AllRecords(registry) ==
  IF registry = <<>> THEN <<>>
  ELSE Head(registry).val \o AllRecords(Tail(registry))

\* BuildMeta reading the records of every bundle
BuildMetaAllBundles(registry, bundleName, view) ==
  LET meta == AllRecords(registry)
      all == [i \in 1..Len(meta) |-> FilteredEntry(meta[i], view)]
  IN SelectSeq(all, LAMBDA e : e.val.builds # <<>>)

\* buildMeta of _getLoaderData: in registry order, every record with a
\* passing variant, carrying its passing variants
BuildMeta(registry, bundleName, view) ==
  LET meta == BundleMeta(registry, bundleName)
      all == [i \in 1..Len(meta) |-> FilteredEntry(meta[i], view)]
  IN SelectSeq(all, LAMBDA e : e.val.builds # <<>>)

\* new BuilderClass({name, group}).compile(buildMeta): the manifest, one
\* entry per module name, and the meta-module text embedding it
BuilderCompile(name, group, buildMeta) ==
  LET json == [i \in 1..Len(buildMeta) |->
                 [key |-> buildMeta[i].val.name,
                  val |-> [group |-> group, builds |-> buildMeta[i].val.builds]]]
  IN [json |-> json, js |-> [module |-> name, group |-> group, embeds |-> json]]

\* _getLoaderData(bundleName, filter): undefined when nothing passes or the
\* manifest is empty, else the builder's data
GetLoaderData(registry, bundleName, view) ==
  LET buildMeta == BuildMeta(registry, bundleName, view)
      data == BuilderCompile(MetaModuleName(bundleName), bundleName, buildMeta)
  IN IF Len(ObjKeys(buildMeta)) = 0 THEN None
     ELSE IF Len(ObjKeys(data.json)) = 0 THEN None
     ELSE Some(data)

\* _createServerLoaderData(bundle)
CreateServerLoaderData(registry, bundle) ==
  GetLoaderData(registry, bundle.name, "server")

\* MetaEntry without the client tag
MetaEntryUntagged(bundleName) == [group |-> bundleName, affinity |-> "unset"]

\* the synthetic entry of the meta-module
MetaEntry(bundleName) == [group |-> bundleName, affinity |-> "client"]

\* loaderData.json[moduleName] = {group, affinity} of _createClientLoaderData
AddMetaModule(loaderData, bundleName, moduleName) ==
  [loaderData EXCEPT !.json = ObjSet(@, moduleName, MetaEntry(bundleName))]

\* _createClientLoaderData(bundle, moduleName)
CreateClientLoaderData(registry, bundle, moduleName) ==
  LET loaderData == GetLoaderData(registry, bundle.name, "client")
  IN IF IsSome(loaderData)
     THEN Some(AddMetaModule(Val(loaderData), bundle.name, moduleName))
     ELSE loaderData

\* ------------------------------------------------------------- the state

VARIABLES
  reg,      \* this._bundles: bundle name -> cache key -> record
  yui,      \* bundle.yui of every bundle: undefined, or the attached fields
  ev,       \* the change event in flight for every bundle
  nEvents,  \* change events handled so far
  regLog,   \* the calls of _register made on their own, oldest first
  describe  \* this.describe: the builder arguments and the options

vars == <<reg, yui, ev, nEvents, regLog, describe>>

\* the plugin's options: no filter configured
OptionsFilter == None

\* ---------------------------------------------------------- the constructor

\* the arguments the constructor can put on the builder's command line
NoGlobalConfig == <<"-", "-", "n", "o", "-", "g", "l", "o", "b", "a", "l", "-", "c", "o", "n", "f", "i", "g">>
NoCoverage == <<"-", "-", "n", "o", "-", "c", "o", "v", "e", "r", "a", "g", "e">>
NoLint == <<"-", "-", "n", "o", "-", "l", "i", "n", "t">>
Silent == <<"-", "-", "s", "i", "l", "e", "n", "t">>
Quiet == <<"-", "-", "q", "u", "i", "e", "t">>
CssprocFlag == <<"-", "-", "c", "s", "s", "p", "r", "o", "c">>

\* utils.debugMode: the debug mode of the process is off
DebugMode == FALSE

\* the cssproc bases a configuration can carry: none, the empty string, a
\* base without and one with a trailing slash
CssprocBases == {None, Some(<<>>), Some(<<"/", "c">>), Some(<<"/", "c", "/">>)}

\* the configurations a plugin is constructed with
Configs ==
  [coverage : BOOLEAN, lint : {FALSE}, silent : {FALSE}, quiet : {FALSE},
   args : {<<>>}, filter : {OptionsFilter}, cssproc : CssprocBases]
\* new PluginClass() with no cssproc and no coverage
DefaultConfig ==
  [coverage |-> FALSE, lint |-> FALSE, silent |-> FALSE, quiet |-> FALSE,
   args |-> <<>>, filter |-> OptionsFilter, cssproc |-> None]

\* the args the constructor computes from a configuration
ConstructorArgs(config) ==
  <<NoGlobalConfig>>
    \o (IF ~config.coverage THEN <<NoCoverage>> ELSE <<>>)
    \o (IF ~config.lint THEN <<NoLint>> ELSE <<>>)
    \o (IF ~DebugMode \/ config.silent THEN <<Silent>> ELSE <<>>)
    \o (IF ~DebugMode \/ config.quiet THEN <<Quiet>> ELSE <<>>)
    \o config.args

\* this.describe as the constructor leaves it
Describe(config) == [args |-> ConstructorArgs(config), options |-> config]

\* bundle.yui once it is an object
EmptyYui == [server |-> None, client |-> None,
             metaModuleFullpath |-> None, metaModuleName |-> None]
\* bundle.yui || {}
YuiOrEmpty(y) == IF IsSome(y) THEN Val(y) ELSE EmptyYui

\* one event of a bundle: pc is the stage the handler has reached; files,
\* jsonFiles, chk, regBefore are what the synchronous part was called with
\* (inputs says they are held), regResolved the registry as the resolve
\* stage of the event left it, targets the list the resolver returned,
\* builds the same array as the later stages see it, trace the stages run.
\* no event in flight: nothing of an earlier event is kept
IdleEvent ==
  [pc |-> "idle", files |-> <<>>, jsonFiles |-> <<>>, chk |-> <<>>,
   regBefore |-> <<>>, regResolved |-> <<>>, yuiBefore |-> None,
   inputs |-> FALSE,
   targets |-> <<>>, builds |-> <<>>, loaderData |-> None, newfile |-> None,
   shift |-> None, trace |-> <<>>, error |-> None]

\* a plugin just constructed with a configuration
InitWith(config) ==
  /\ reg = <<>>
  /\ yui = [n \in BundleNames |-> None]
  /\ ev = [n \in BundleNames |-> IdleEvent]
  /\ nEvents = 0
  /\ regLog = <<>>
  /\ describe = Describe(config)

Init == InitWith(DefaultConfig)

\* the locals of the synchronous part are dead once it has returned
Forget(e) ==
  [e EXCEPT !.files = <<>>, !.jsonFiles = <<>>, !.chk = <<>>,
            !.regBefore = <<>>, !.inputs = FALSE]

\* ------------------------------------------------------------ bundleUpdated

\* NothingToBuild looking at the registry alone
NothingToBuildNoMeta(registry, bundleName, builds) ==
  ~ObjHas(registry, bundleName)

\* !meta || builds.length === 0: no yui module in queue
NothingToBuild(registry, bundleName, builds) ==
  ~ObjHas(registry, bundleName) \/ Len(builds) = 0

\* the synchronous part of bundleUpdated(evt, api): filter the files, resolve
\* the targets, return at once when there is nothing to build, else start the
\* chain, whose first executor compiles the server view
BundleUpdated(bundle, evtFiles, jsonFiles, chk) ==
  LET n == bundle.name
      files == FilterFilesInBundle(bundle, evtFiles, describe.options.filter)
      r == BuildsInBundle(reg, bundle, files, jsonFiles, chk)
      started == [IdleEvent EXCEPT
                    !.files = files, !.jsonFiles = jsonFiles, !.chk = chk,
                    !.regBefore = reg, !.regResolved = r.reg,
                    !.yuiBefore = yui[n], !.inputs = TRUE,
                    !.targets = r.builds, !.builds = r.builds]
  IN /\ ev[n].pc = "idle"
     /\ nEvents < MaxEvents
     /\ nEvents' = nEvents + 1
     /\ reg' = r.reg
     /\ UNCHANGED <<yui, regLog, describe>>
     /\ IF NothingToBuild(r.reg, n, r.builds)
        THEN ev' = [ev EXCEPT ![n] =
                      [started EXCEPT !.pc = "returned", !.trace = <<"resolve">>]]
        ELSE ev' = [ev EXCEPT ![n] =
                      [started EXCEPT
                         !.pc = "serverCompiled",
                         !.loaderData = CreateServerLoaderData(r.reg, bundle),
                         !.trace = <<"resolve", "compileServer">>]]

\* AttachServerLoaderData clearing the field when there is no view
AttachServerLoaderDataClearing(y, loaderData) ==
  IF IsSome(loaderData)
  THEN Some([YuiOrEmpty(y) EXCEPT !.server = Some(Val(loaderData).json)])
  ELSE Some([YuiOrEmpty(y) EXCEPT !.server = None])

\* _attachServerLoaderData(bundle, loaderData)
AttachServerLoaderData(y, loaderData) ==
  IF IsSome(loaderData)
  THEN Some([YuiOrEmpty(y) EXCEPT !.server = Some(Val(loaderData).json)])
  ELSE y

\* the first then-callback: attach the server view
AttachServer(bundle) ==
  LET n == bundle.name
  IN /\ ev[n].pc = "serverCompiled"
     /\ yui' = [yui EXCEPT ![n] = AttachServerLoaderData(@, ev[n].loaderData)]
     /\ ev' = [ev EXCEPT ![n] =
                 [Forget(@) EXCEPT !.pc = "serverAttached", !.loaderData = None,
                                   !.trace = Append(@, "attachServer")]]
     /\ UNCHANGED <<reg, nEvents, regLog, describe>>

\* CompileClient registering the bundle's first target again, with no
\* variants, before it compiles
CompileClientRegistering(bundle) ==
  LET n == bundle.name
      written == Register(reg, n, ev[n].targets[1],
                          Record(Stem(ev[n].targets[1]), ev[n].targets[1], <<>>))
  IN /\ ev[n].pc = "serverAttached"
     /\ reg' = written
     /\ ev' = [ev EXCEPT ![n] =
                 [@ EXCEPT !.pc = "clientCompiled",
                           !.loaderData = CreateClientLoaderData(
                                            written, bundle, MetaModuleName(n)),
                           !.trace = Append(@, "compileClient")]]
     /\ UNCHANGED <<yui, nEvents, regLog, describe>>

\* the second then-callback: compile the client view
CompileClient(bundle) ==
  LET n == bundle.name
  IN /\ ev[n].pc = "serverAttached"
     /\ ev' = [ev EXCEPT ![n] =
                 [@ EXCEPT !.pc = "clientCompiled",
                           !.loaderData = CreateClientLoaderData(
                                            reg, bundle, MetaModuleName(n)),
                           !.trace = Append(@, "compileClient")]]
     /\ UNCHANGED <<reg, yui, nEvents, regLog, describe>>

\* the bundle.yui part of _attachClientLoaderData
AttachClientLoaderData(y, loaderData) ==
  IF IsSome(loaderData)
  THEN Some([YuiOrEmpty(y) EXCEPT !.client = Some(Val(loaderData).json)])
  ELSE y

\* the third then-callback: attach the client view and, when there is one,
\* ask the host to write the meta-module
AttachClient(bundle) ==
  LET n == bundle.name
      e == ev[n]
  IN /\ e.pc = "clientCompiled"
     /\ yui' = [yui EXCEPT ![n] = AttachClientLoaderData(@, e.loaderData)]
     /\ ev' = [ev EXCEPT ![n] =
                 IF IsSome(e.loaderData)
                 THEN [e EXCEPT !.pc = "writing",
                                !.trace = Append(@, "attachClient") \o <<"write">>]
                 ELSE [e EXCEPT !.pc = "clientAttached", !.newfile = None,
                                !.trace = Append(@, "attachClient")]]
     /\ UNCHANGED <<reg, nEvents, regLog, describe>>

\* where the host writes the meta-module of a bundle
MetaModulePath(bundle) ==
  Join(bundle.buildDirectory, MetaModuleName(bundle.name) \o JsExt)

\* api.writeFileInBundle resolves, to the written path or to nothing
WriteResolves(bundle, newfile) ==
  LET n == bundle.name
  IN /\ ev[n].pc = "writing"
     /\ ev' = [ev EXCEPT ![n] =
                 [@ EXCEPT !.pc = "clientAttached", !.newfile = newfile,
                           !.loaderData = None]]
     /\ UNCHANGED <<reg, yui, nEvents, regLog, describe>>

\* WriteFails with the failure noted and the chain going on
WriteFailsIgnored(bundle) ==
  LET n == bundle.name
  IN /\ ev[n].pc = "writing"
     /\ ev' = [ev EXCEPT ![n] =
                 [@ EXCEPT !.pc = "clientAttached", !.loaderData = None,
                           !.error = Some("write")]]
     /\ UNCHANGED <<reg, yui, nEvents, regLog, describe>>

\* api.writeFileInBundle rejects: the chain rejects with its error
WriteFails(bundle) ==
  LET n == bundle.name
  IN /\ ev[n].pc = "writing"
     /\ ev' = [ev EXCEPT ![n] =
                 [@ EXCEPT !.pc = "rejected", !.loaderData = None,
                           !.error = Some("write")]]
     /\ UNCHANGED <<reg, yui, nEvents, regLog, describe>>

\* the bundle.yui part of _attachClientMetaData
AttachMetaFields(y, moduleName, newfile) ==
  IF IsSome(newfile)
  THEN Some([Val(y) EXCEPT !.metaModuleFullpath = newfile,
                           !.metaModuleName = Some(moduleName)])
  ELSE y

\* PushMetaModule putting the meta-module in front of the targets
PushMetaModuleFirst(builds, newfile) ==
  IF IsSome(newfile) THEN <<Val(newfile)>> \o builds ELSE builds

\* the builds.push part of _attachClientMetaData
PushMetaModule(builds, newfile) ==
  IF IsSome(newfile) THEN Append(builds, Val(newfile)) ELSE builds

\* the fourth then-callback: _attachClientMetaData
AttachClientMetaData(bundle) ==
  LET n == bundle.name
      e == ev[n]
  IN /\ e.pc = "clientAttached"
     /\ yui' = [yui EXCEPT ![n] = AttachMetaFields(@, MetaModuleName(n), e.newfile)]
     /\ ev' = [ev EXCEPT ![n] =
                 [e EXCEPT !.pc = "metaAttached",
                           !.builds = PushMetaModule(@, e.newfile),
                           !.trace = Append(@, "attachMeta")]]
     /\ UNCHANGED <<reg, nEvents, regLog, describe>>

\* a JavaScript string used as a condition: set and not empty
Truthy(o) == IsSome(o) /\ Val(o) # <<>>

\* CssprocBase taking the configured base as it is
CssprocBaseAsIs(cssproc) == cssproc

\* the cssproc base with a slash at its end
CssprocBase(cssproc) ==
  IF cssproc[Len(cssproc)] = "/" THEN cssproc ELSE cssproc \o <<"/">>

\* the args _shiftEverything computes: a copy of describe.args and, when
\* cssproc is enabled, the flag and the base of the bundle
ShiftArgs(d, bundle, cssproc) ==
  LET args == <<>> \o d.args
  IN IF Truthy(cssproc)
     THEN args \o <<CssprocFlag,
                    CssprocBase(Val(cssproc)) \o Basename(bundle.buildDirectory)>>
     ELSE args

\* ShiftEverything started as soon as the write has resolved
ShiftEverythingEarly(bundle) ==
  LET n == bundle.name
      e == ev[n]
  IN /\ e.pc = "clientAttached"
     /\ ev' = [ev EXCEPT ![n] =
                 [e EXCEPT !.pc = "shifting",
                           !.shift = Some([files |-> e.builds,
                                           buildDir |-> bundle.buildDirectory,
                                           args |-> ShiftArgs(describe, bundle,
                                                     describe.options.cssproc)]),
                           !.trace = Append(@, "shift")]]
     /\ UNCHANGED <<reg, yui, nEvents, regLog, describe>>

\* the last then-callback: _shiftEverything hands the targets to the builder
ShiftEverything(bundle) ==
  LET n == bundle.name
      e == ev[n]
  IN /\ e.pc = "metaAttached"
     /\ ev' = [ev EXCEPT ![n] =
                 [e EXCEPT !.pc = "shifting",
                           !.shift = Some([files |-> e.builds,
                                           buildDir |-> bundle.buildDirectory,
                                           args |-> ShiftArgs(describe, bundle,
                                                     describe.options.cssproc)]),
                           !.trace = Append(@, "shift")]]
     /\ UNCHANGED <<reg, yui, nEvents, regLog, describe>>

\* ShiftCallback emptying the registry when the builder fails
ShiftCallbackResetting(bundle, err) ==
  LET n == bundle.name
  IN /\ ev[n].pc = "shifting"
     /\ ev' = [ev EXCEPT ![n] =
                 [@ EXCEPT !.pc = IF IsSome(err) THEN "rejected" ELSE "fulfilled",
                           !.error = err]]
     /\ reg' = IF IsSome(err) THEN <<>> ELSE reg
     /\ UNCHANGED <<yui, nEvents, regLog, describe>>

\* the builder calls back: with an error the chain rejects, else it fulfils
ShiftCallback(bundle, err) ==
  LET n == bundle.name
  IN /\ ev[n].pc = "shifting"
     /\ ev' = [ev EXCEPT ![n] =
                 [@ EXCEPT !.pc = IF IsSome(err) THEN "rejected" ELSE "fulfilled",
                           !.error = err]]
     /\ UNCHANGED <<reg, yui, nEvents, regLog, describe>>

\* the host has the handler's result: the event is over
Settle(bundle) ==
  LET n == bundle.name
  IN /\ ev[n].pc \in {"returned", "fulfilled", "rejected"}
     /\ ev' = [ev EXCEPT ![n] = IdleEvent]
     /\ UNCHANGED <<reg, yui, nEvents, regLog, describe>>

\* a call of _buildsInBundle alone, as a caller of the protected method
\* makes it: the registry is updated and the targets are returned
ResolveCall(bundle, modifiedFiles, jsonFiles, chk) ==
  LET n == bundle.name
      r == BuildsInBundle(reg, bundle, modifiedFiles, jsonFiles, chk)
  IN /\ ev[n].pc = "idle"
     /\ nEvents' = nEvents + 1
     /\ reg' = r.reg
     /\ ev' = [ev EXCEPT ![n] =
                 [IdleEvent EXCEPT
                    !.pc = "resolved",
                    !.files = modifiedFiles, !.jsonFiles = jsonFiles, !.chk = chk,
                    !.regBefore = reg, !.regResolved = r.reg,
                    !.yuiBefore = yui[n], !.inputs = TRUE,
                    !.targets = r.builds, !.builds = r.builds,
                    !.trace = <<"resolve">>]]
     /\ UNCHANGED <<yui, regLog, describe>>

\* the caller has the returned list
ResolveReturns(bundle) ==
  LET n == bundle.name
  IN /\ ev[n].pc = "resolved"
     /\ ev' = [ev EXCEPT ![n] = IdleEvent]
     /\ UNCHANGED <<reg, yui, nEvents, regLog, describe>>

\* the host reports a change of a bundle that has no event in flight
ChangeEvent(bundle) ==
  /\ ev[bundle.name].pc = "idle"
  /\ nEvents < MaxEvents
  /\ \E evtFiles \in SeqUpTo(EventPaths, MaxModified) :
       \E jsonFiles \in SeqUpTo(EventPaths \cap JsonPaths, MaxJson) :
         \E chk \in CheckAnswers(evtFiles, jsonFiles) :
           BundleUpdated(bundle, evtFiles, jsonFiles, chk)

\* the steps of the events of some bundles of the host
NextOf(bundles) ==
  \/ \E bundle \in bundles : ChangeEvent(bundle)
  \/ \E bundle \in bundles : AttachServer(bundle)
  \/ \E bundle \in bundles : CompileClient(bundle)
  \/ \E bundle \in bundles : AttachClient(bundle)
  \/ \E bundle \in bundles : \E newfile \in {None, Some(MetaModulePath(bundle))} :
       WriteResolves(bundle, newfile)
  \/ \E bundle \in bundles : WriteFails(bundle)
  \/ \E bundle \in bundles : AttachClientMetaData(bundle)
  \/ \E bundle \in bundles : ShiftEverything(bundle)
  \/ \E bundle \in bundles : \E err \in {None, Some("shift")} :
       ShiftCallback(bundle, err)
  \/ \E bundle \in bundles : Settle(bundle)

\* the events of one bundle
Next == NextOf({BundleB})

Spec == Init /\ [][Next]_vars

\* the host's promises always call the callbacks they hold, the host's write
\* and the builder always answer: a step that can be taken is taken
FairSpec == Spec /\ WF_vars(Next)

\* the events of all the bundles, in any interleaving
NextBundles == NextOf(Bundles)
SpecBundles == Init /\ [][NextBundles]_vars

\* the same events on a plugin constructed with any of the configurations
InitConfigured == \E config \in Configs : InitWith(config)
SpecConfigured == InitConfigured /\ [][Next]_vars

\* the resolver on its own, over every list of the model's files
\* the first call on a fresh plugin
ResolverCalled(bundle) ==
  /\ ev[bundle.name].pc = "idle"
  /\ nEvents = 0
  /\ \E modifiedFiles \in SeqUpTo(Paths, MaxModified) :
       \E jsonFiles \in SeqUpTo(JsonPaths, MaxJson) :
         \E chk \in CheckAnswers(modifiedFiles, jsonFiles) :
           ResolveCall(bundle, modifiedFiles, jsonFiles, chk)

NextResolver ==
  \/ \E bundle \in {BundleB} : ResolverCalled(bundle)
  \/ \E bundle \in {BundleB} : ResolveReturns(bundle)

SpecResolver == Init /\ [][NextResolver]_vars

\* the registry on its own: _register called with any bundle name, cache
\* key and record
RegisterCall(bundleName, cacheKey, mod) ==
  /\ Len(regLog) < MaxRegisters
  /\ reg' = Register(reg, bundleName, cacheKey, mod)
  /\ regLog' = Append(regLog, [bundleName |-> bundleName, cacheKey |-> cacheKey,
                               mod |-> mod])
  /\ UNCHANGED <<yui, ev, nEvents, describe>>

\* the records a caller can hand to _register for a cache key
RecordsFor(f) == {Val(o) : o \in (ModuleOutcomes(f) \cup DescriptorOutcomes(f)) \ {None}}

NextRegistry ==
  \E bundleName \in {<<"b">>, <<"c">>} : \E cacheKey \in EventPaths :
    \E mod \in RecordsFor(cacheKey) : RegisterCall(bundleName, cacheKey, mod)

SpecRegistry == Init /\ [][NextRegistry]_vars

\* ------------------------------------------------- the resolver's properties

\* the rearrangements of a list
Perms(s) == {p \in [1..Len(s) -> 1..Len(s)] : \A i, j \in 1..Len(s) : p[i] = p[j] => i = j}
Permuted(s, p) == [i \in 1..Len(s) |-> s[p[i]]]

\* the path of a file lies inside a directory
InDirectory(f, dir) ==
  Len(f) > Len(dir) + 1 /\ SubSeq(f, 1, Len(dir) + 1) = dir \o <<"/">>

\* the listed files the descriptor check is made on
Descriptors(e) == {d \in Range(e.jsonFiles) : Basename(d) = BuildJson}
\* whether a bundle's registry holds the same thing, or nothing, under a key
\* in two registries
SameEntry(before, after, n, k) ==
  /\ ObjHas(BundleMeta(after, n), k) <=> ObjHas(BundleMeta(before, n), k)
  /\ ObjHas(BundleMeta(before, n), k) =>
       ObjGet(BundleMeta(after, n), k) = ObjGet(BundleMeta(before, n), k)
\* a bundle's registry holds exactly this record under a key
Holds(registry, n, k, mod) ==
  ObjHas(BundleMeta(registry, n), k) /\ ObjGet(BundleMeta(registry, n), k) = mod

\* C1: whatever the order of modifiedFiles and of jsonFiles, the resolver
\* returns the same list, which is in strictly ascending code-unit order
\* (sorted, no path twice), and leaves the same registry.
C1_ResolverDeterministic ==
  \A bd \in Bundles :
    LET e == ev[bd.name]
    IN e.inputs =>
         /\ \A i, j \in 1..Len(e.targets) :
              i < j => StrLess(e.targets[i], e.targets[j])
         /\ \A p \in Perms(e.files) : \A q \in Perms(e.jsonFiles) :
              LET r == BuildsInBundle(e.regBefore, bd, Permuted(e.files, p),
                                      Permuted(e.jsonFiles, q), e.chk)
              IN /\ r.builds = e.targets
                 /\ \A n \in BundleNames : BundleMeta(r.reg, n) = BundleMeta(reg, n)

\* two modules and two descriptors, both lists given out of order, all targeted
C1_Witness ==
  LET e == ev[BundleB.name]
  IN /\ e.inputs
     /\ e.files = <<FileN, FileM>>
     /\ e.jsonFiles = <<FileE, FileD>>
     /\ Len(e.targets) = 4

\* C2: a listed descriptor that passes the check is a target exactly when a
\* modified file is the descriptor itself, or is a .js file inside the
\* descriptor's directory and not inside the bundle's build directory.
C2_DescriptorTargetedIff ==
  \A bd \in Bundles :
    LET e == ev[bd.name]
    IN e.inputs =>
         \A d \in Descriptors(e) :
           IsSome(e.chk[d]) =>
             (d \in Range(e.targets) <=>
                \E f \in Range(e.files) :
                  \/ f = d
                  \/ /\ Extname(f) = JsExt
                     /\ InDirectory(f, Dirname(d))
                     /\ ~InDirectory(f, bd.buildDirectory))

\* C3: a modified file named loader-<bundle>.js is neither returned as a
\* target nor registered, even when the module check accepts it.
C3_LoaderNeverTargeted ==
  \A bd \in Bundles :
    LET e == ev[bd.name]
    IN e.inputs =>
         \A f \in Range(e.files) :
           Basename(f) = LoaderPrefix \o bd.name \o JsExt =>
             /\ f \notin Range(e.targets)
             /\ ~ObjHas(BundleMeta(reg, bd.name), f)

\* the meta-module is modified beside a module, and the check accepts both
C3_Witness ==
  LET e == ev[BundleB.name]
  IN /\ e.inputs
     /\ e.files = <<FileL, FileM>>
     /\ IsSome(e.chk[FileL])
     /\ e.targets = <<FileM>>

\* C4: a modified .js file that is not the meta-module is registered under
\* its path and targeted when the module check accepts it; when the check
\* rejects it, it is not targeted and the registry is as before under its
\* path, while the other modified files and the descriptors are still dealt
\* with.
C4_ModuleFilesRegistered ==
  \A bd \in Bundles :
    LET e == ev[bd.name]
    IN e.inputs =>
         /\ \A f \in Range(e.files) :
              (Extname(f) = JsExt /\ Basename(f) # LoaderPrefix \o bd.name \o JsExt) =>
                IF IsSome(e.chk[f])
                THEN Holds(reg, bd.name, f, Val(e.chk[f])) /\ f \in Range(e.targets)
                ELSE f \notin Range(e.targets) /\ SameEntry(e.regBefore, reg, bd.name, f)
         /\ \A d \in Descriptors(e) :
              IsSome(e.chk[d]) => ObjHas(BundleMeta(reg, bd.name), d)

\* a rejected module is scanned before an accepted one and a descriptor
C4_Witness ==
  LET e == ev[BundleB.name]
  IN /\ e.inputs
     /\ e.files = <<FileM, FileN>>
     /\ ~IsSome(e.chk[FileM])
     /\ IsSome(e.chk[FileN])
     /\ FileE \in Descriptors(e) /\ IsSome(e.chk[FileE])
     /\ ObjHas(BundleMeta(reg, BundleB.name), FileN)
     /\ ObjHas(BundleMeta(reg, BundleB.name), FileE)

\* C5: a listed build.json that passes the descriptor check is registered
\* under its path, target or not; one that fails it is not targeted and the
\* registry is as before under its path.
C5_DescriptorsRegistered ==
  \A bd \in Bundles :
    LET e == ev[bd.name]
    IN e.inputs =>
         \A d \in Descriptors(e) :
           IF IsSome(e.chk[d])
           THEN Holds(reg, bd.name, d, Val(e.chk[d]))
           ELSE d \notin Range(e.targets) /\ SameEntry(e.regBefore, reg, bd.name, d)

\* nothing is modified: a valid descriptor is registered without being a
\* target, beside one that fails the check
C5_Witness ==
  LET e == ev[BundleB.name]
  IN /\ e.inputs
     /\ e.files = <<>>
     /\ e.jsonFiles = <<FileD, FileE>>
     /\ IsSome(e.chk[FileD]) /\ ~IsSome(e.chk[FileE])
     /\ e.targets = <<>>
     /\ ObjHas(BundleMeta(reg, BundleB.name), FileD)
     /\ ~ObjHas(BundleMeta(reg, BundleB.name), FileE)

\* ------------------------------------------------------ the no-op event

\* C6: with no modified file the resolver returns no target, and an event
\* whose target list is empty returns at once: only the resolve stage has
\* run, bundle.yui is as before the event, nothing is compiled, written or
\* handed to the builder, and no error is reported.
C6_EmptyTargetsNoOp ==
  \A bd \in Bundles :
    LET e == ev[bd.name]
    IN /\ (e.inputs /\ e.files = <<>>) => e.targets = <<>>
       /\ (e.pc # "idle" /\ e.targets = <<>>) =>
            /\ e.pc = "returned"
            /\ e.trace = <<"resolve">>
            /\ yui[bd.name] = e.yuiBefore
            /\ e.loaderData = None /\ e.newfile = None
            /\ e.shift = None /\ e.error = None

\* nothing is modified while the registry holds records and an earlier
\* event has attached its views
C6_Witness ==
  LET e == ev[BundleB.name]
  IN /\ e.pc = "returned"
     /\ e.files = <<>> /\ e.jsonFiles = <<FileD>>
     /\ IsSome(e.chk[FileD])
     /\ ObjHas(BundleMeta(reg, BundleB.name), FileM)
     /\ IsSome(yui[BundleB.name])

\* ---------------------------------------------------------- the registry

\* the calls of _register made for a pair, by their place in the log
CallsFor(bundleName, cacheKey) ==
  {i \in 1..Len(regLog) :
     regLog[i].bundleName = bundleName /\ regLog[i].cacheKey = cacheKey}
\* the number of entries an object has under a key
Count(o, k) == Cardinality({i \in 1..Len(o) : o[i].key = k})

\* C7: after any sequence of register calls the registry holds, for every
\* pair registered, exactly one record, the one of the latest call for that
\* pair, and nothing for a pair never registered.
C7_RegistryKeepsLatest ==
  \A bundleName \in {<<"b">>, <<"c">>} : \A cacheKey \in EventPaths :
    LET calls == CallsFor(bundleName, cacheKey)
        last == CHOOSE i \in calls : \A j \in calls : j <= i
    IN /\ Count(reg, bundleName) <= 1
       /\ IF calls = {}
          THEN Count(BundleMeta(reg, bundleName), cacheKey) = 0
          ELSE /\ Count(BundleMeta(reg, bundleName), cacheKey) = 1
               /\ ObjGet(BundleMeta(reg, bundleName), cacheKey) = regLog[last].mod

\* a pair registered twice with different records, after another key of the
\* same bundle
C7_Witness ==
  /\ Len(regLog) = 3
  /\ regLog[1].bundleName = <<"b">> /\ regLog[1].cacheKey = FileD
  /\ regLog[2].bundleName = <<"b">> /\ regLog[2].cacheKey = FileM
  /\ regLog[3].bundleName = <<"b">> /\ regLog[3].cacheKey = FileM
  /\ regLog[2].mod # regLog[3].mod
  /\ ObjGet(BundleMeta(reg, <<"b">>), FileM) = regLog[3].mod

\* ------------------------------------------------------------- the views

\* the view an event has just compiled: the server view after the first
\* executor, the client view after the second
CompiledView(e) ==
  IF e.pc = "serverCompiled" THEN "server"
  ELSE IF e.pc = "clientCompiled" THEN "client"
  ELSE "none"

\* the module entries of a manifest: all but the synthetic meta-module
Modules(json, bundleName) ==
  SelectSeq(json, LAMBDA en : en.key # MetaModuleName(bundleName))

\* the variants of a record whose config passes a view's filter
Passing(rec, view) ==
  {rec.builds[i] : i \in {j \in 1..Len(rec.builds) :
                            ApplyFilter(view, rec.name, rec.builds[j].val.config)}}

\* C8: a compilation returns nothing when no variant of any record
\* registered for the bundle passes the filter; otherwise it returns a json
\* and js pair, and the modules of json are exactly the records with a
\* passing variant, each with exactly its passing variants.
C8_CompileKeepsPassing ==
  \A bd \in Bundles :
    LET e == ev[bd.name]
        view == CompiledView(e)
        meta == BundleMeta(reg, bd.name)
        live == {i \in 1..Len(meta) : Passing(meta[i].val, view) # {}}
    IN view # "none" =>
         IF live = {}
         THEN e.loaderData = None
         ELSE /\ IsSome(e.loaderData)
              /\ LET data == Val(e.loaderData)
                     mods == Modules(data.json, bd.name)
                 IN /\ Len(mods) > 0
                    /\ data.js.module = MetaModuleName(bd.name)
                    /\ Range(ObjKeys(mods)) = {meta[i].val.name : i \in live}
                    /\ Len(mods) = Cardinality(live)
                    /\ \A i \in live :
                         Range(ObjGet(mods, meta[i].val.name).builds)
                           = Passing(meta[i].val, view)

\* the server view of a registry whose descriptor has a server and a client
\* variant: the descriptor is kept with its server variant alone
C8_Witness ==
  LET e == ev[BundleB.name]
      meta == BundleMeta(reg, BundleB.name)
  IN /\ e.pc = "serverCompiled"
     /\ IsSome(e.loaderData)
     /\ ObjHas(meta, FileD) /\ Len(ObjGet(meta, FileD).builds) = 2
     /\ ObjHas(meta, FileM)
     /\ Len(Val(e.loaderData).json) = 2

\* a variant is in a compiled view, under the name of its record
InView(loaderData, name, variant) ==
  /\ IsSome(loaderData)
  /\ ObjHas(Val(loaderData).json, name)
  /\ variant \in Range(ObjGet(Val(loaderData).json, name).builds)

\* C9: the server view holds exactly the registered variants whose affinity
\* is not client, the client view exactly those whose affinity is not
\* server; a variant without affinity is in both.
C9_ViewsSplitByAffinity ==
  \A bd \in Bundles :
    LET e == ev[bd.name]
        meta == BundleMeta(reg, bd.name)
    IN \A i \in 1..Len(meta) : \A j \in 1..Len(meta[i].val.builds) :
         LET rec == meta[i].val
             affinity == rec.builds[j].val.config.affinity
         IN /\ e.pc = "serverCompiled" =>
                 (InView(e.loaderData, rec.name, rec.builds[j]) <=> affinity # "client")
            /\ e.pc = "clientCompiled" =>
                 (InView(e.loaderData, rec.name, rec.builds[j]) <=> affinity # "server")

\* the affinities of the variants registered for a bundle
Affinities(registry, bundleName) ==
  LET meta == BundleMeta(registry, bundleName)
  IN {meta[i].val.builds[j].val.config.affinity :
        <<i, j>> \in {<<i, j>> \in (1..Len(meta)) \X (1..2) : j <= Len(meta[i].val.builds)}}

\* the client view is compiled from variants of all three kinds
C9_Witness ==
  LET e == ev[BundleB.name]
  IN /\ e.pc = "clientCompiled"
     /\ IsSome(e.loaderData)
     /\ Affinities(reg, BundleB.name) = {"unset", "client", "server"}

\* C10 as stated: the client-view compilation always gives an output with an
\* entry for the meta-module, tagged client and grouped under the bundle.
C10_ClientAlwaysHasMetaEntry ==
  \A bd \in Bundles :
    LET e == ev[bd.name]
    IN e.pc = "clientCompiled" =>
         /\ IsSome(e.loaderData)
         /\ Holds(<<[key |-> bd.name, val |-> Val(e.loaderData).json]>>, bd.name,
                  MetaModuleName(bd.name), [group |-> bd.name, affinity |-> "client"])

\* C10 amended: whenever the client-view compilation gives an output, its
\* json holds the compiled modules and one more entry, keyed by the
\* meta-module name, tagged client and grouped under the bundle; with no
\* variant passing the client filter there is no output at all.
C10_ClientMetaEntryWhenPresent ==
  \A bd \in Bundles :
    LET e == ev[bd.name]
        meta == BundleMeta(reg, bd.name)
    IN e.pc = "clientCompiled" =>
         IF \E i \in 1..Len(meta) : Passing(meta[i].val, "client") # {}
         THEN /\ IsSome(e.loaderData)
              /\ LET json == Val(e.loaderData).json
                 IN /\ Count(json, MetaModuleName(bd.name)) = 1
                    /\ ObjGet(json, MetaModuleName(bd.name))
                         = [group |-> bd.name, affinity |-> "client"]
                    /\ Len(json) = Len(Modules(json, bd.name)) + 1
         ELSE e.loaderData = None

\* a client view with a module and the meta-module entry
C10_Witness ==
  LET e == ev[BundleB.name]
  IN /\ e.pc = "clientCompiled"
     /\ IsSome(e.loaderData)
     /\ Len(Val(e.loaderData).json) = 2
     /\ ObjHas(Val(e.loaderData).json, MetaModuleName(BundleB.name))

\* ------------------------------------------------------- the stage order

\* the stages of one event in the order of the chain; the write of the
\* meta-module is part of the attach-client stage and happens only when
\* there is a client view
Stages ==
  <<"resolve", "compileServer", "attachServer", "compileClient",
    "attachClient", "write", "attachMeta", "shift">>
StagesNoWrite == SelectSeq(Stages, LAMBDA st : st # "write")
IsPrefix(s, t) == Len(s) <= Len(t) /\ s = SubSeq(t, 1, Len(s))

\* the stage an event must have run last at each position of its handler
LastStageAt(pc) ==
  CASE pc = "returned" -> {"resolve"}
    [] pc = "serverCompiled" -> {"compileServer"}
    [] pc = "serverAttached" -> {"attachServer"}
    [] pc = "clientCompiled" -> {"compileClient"}
    [] pc = "writing" -> {"write"}
    [] pc = "clientAttached" -> {"attachClient", "write"}
    [] pc = "metaAttached" -> {"attachMeta"}
    [] pc \in {"shifting", "fulfilled"} -> {"shift"}
    [] pc = "rejected" -> {"write", "shift"}
    [] OTHER -> {}

\* C11: the stages of an event run in the order resolve, compile server,
\* attach server, compile client, attach client (with the write), record the
\* meta-module, invoke the builder: the stages run so far are always a
\* prefix of that list, a stage is entered only from the position the
\* previous one left, and the builder is invoked at most once, as the last
\* stage.
C11_StagesInOrder ==
  \A bd \in Bundles :
    LET e == ev[bd.name]
    IN /\ IsPrefix(e.trace, Stages) \/ IsPrefix(e.trace, StagesNoWrite)
       /\ e.pc # "idle" => e.trace # <<>> /\ e.trace[Len(e.trace)] \in LastStageAt(e.pc)
       /\ e.pc = "idle" => e.trace = <<>>
       /\ IsSome(e.shift) <=> (e.trace # <<>> /\ e.trace[Len(e.trace)] = "shift")
       /\ Cardinality({i \in 1..Len(e.trace) : e.trace[i] = "shift"}) <= 1

\* an event that has run all eight stages, the write included
C11_Witness ==
  LET e == ev[BundleB.name]
  IN e.pc = "fulfilled" /\ e.trace = Stages

\* ------------------------------------------------------------- failures

\* the meta-module fields of bundle.yui
MetaFields(y) ==
  <<YuiOrEmpty(y).metaModuleFullpath, YuiOrEmpty(y).metaModuleName>>

\* C12: a failed write or a failed builder run makes the handler's result a
\* rejection carrying that failure, and nothing else does; the failed stage
\* is the last one the event runs, and after a failed write the
\* meta-module fields of the bundle are as before the event, the meta-module
\* is not among the targets and the builder has not been invoked.
C12_FailureRejects ==
  \A bd \in Bundles :
    LET e == ev[bd.name]
    IN /\ IsSome(e.error) <=> e.pc = "rejected"
       /\ e.error = Some("write") =>
            /\ e.trace[Len(e.trace)] = "write"
            /\ e.shift = None
            /\ e.builds = e.targets
            /\ MetaFields(yui[bd.name]) = MetaFields(e.yuiBefore)
       /\ e.error = Some("shift") =>
            /\ e.trace[Len(e.trace)] = "shift"
            /\ IsSome(e.shift)

\* the write fails in an event that follows one whose write went through
C12_Witness ==
  LET e == ev[BundleB.name]
  IN /\ e.pc = "rejected"
     /\ e.error = Some("write")
     /\ IsSome(e.yuiBefore)
     /\ IsSome(Val(e.yuiBefore).metaModuleFullpath)

\* C13: from the return of its resolve stage to its end, whatever its
\* outcome, an event finds the registry as that resolve stage left it: the
\* compile, attach, write and builder stages do not change it, and a failed
\* event leaves every record registered.
C13_StagesKeepRegistry ==
  \A bd \in Bundles :
    LET e == ev[bd.name]
    IN e.pc # "idle" => reg = e.regResolved

\* the builder fails in an event whose resolve stage registered a record
C13_Witness ==
  LET e == ev[BundleB.name]
  IN /\ e.pc = "rejected"
     /\ e.error = Some("shift")
     /\ ObjHas(BundleMeta(reg, BundleB.name), FileM)
     /\ ObjHas(BundleMeta(reg, BundleB.name), FileD)

\* ------------------------------------------------ what the builder is given

\* a stage is among those the event has run
HasRun(e, stage) == \E i \in 1..Len(e.trace) : e.trace[i] = stage

\* the client view of the registry an event works on is present
ClientViewPresent(bd) ==
  IsSome(CreateClientLoaderData(reg, bd, MetaModuleName(bd.name)))

\* C14: the builder is given the resolved targets, in ascending order, and
\* after them the path of the meta-module exactly when there was a client
\* view and its write resolved to a path; the meta-module path and name on
\* the bundle are set in exactly that case and are otherwise as before the
\* event; the write is attempted exactly when there is a client view.
C14_BuilderGetsTargetsAndMeta ==
  \A bd \in Bundles :
    LET e == ev[bd.name]
        n == bd.name
        written == HasRun(e, "write") /\ IsSome(e.newfile)
    IN /\ IsSome(e.shift) =>
            /\ Val(e.shift).files
                  = e.targets \o (IF written THEN <<MetaModulePath(bd)>> ELSE <<>>)
            /\ \A i, j \in 1..Len(e.targets) :
                 i < j => StrLess(e.targets[i], e.targets[j])
       /\ IsSome(e.newfile) => HasRun(e, "write")
       /\ HasRun(e, "attachClient") => (HasRun(e, "write") <=> ClientViewPresent(bd))
       /\ e.pc # "idle" =>
            IF HasRun(e, "attachMeta") /\ written
            THEN MetaFields(yui[n]) = <<e.newfile, Some(MetaModuleName(n))>>
            ELSE MetaFields(yui[n]) = MetaFields(e.yuiBefore)

\* the builder is given two resolved targets and the written meta-module
C14_Witness ==
  LET e == ev[BundleB.name]
  IN /\ e.pc = "shifting"
     /\ Val(e.shift).files = <<FileD, FileM, MetaModulePath(BundleB)>>

\* C15: the builder is given the plugin's configured arguments and, exactly
\* when a cssproc base is configured, after them the one pair --cssproc and
\* the base, ended by a single slash, followed by the base name of the
\* bundle's build directory; the configured arguments stay as the
\* constructor computed them, in every event.
C15_BuilderArgs ==
  \A bd \in Bundles :
    LET e == ev[bd.name]
        configured == ConstructorArgs(describe.options)
        base == describe.options.cssproc
        slashed == IF base = Some(<<"/", "c">>) THEN <<"/", "c", "/">> ELSE Val(base)
    IN /\ describe.args = configured
       /\ IsSome(e.shift) =>
            Val(e.shift).args =
              IF base \in {None, Some(<<>>)}
              THEN configured
              ELSE configured
                     \o <<CssprocFlag, slashed \o Basename(bd.buildDirectory)>>

\* the second event of a plugin configured with a base that has no slash
C15_Witness ==
  LET e == ev[BundleB.name]
  IN /\ nEvents = 2
     /\ e.pc = "shifting"
     /\ describe.options.cssproc = Some(<<"/", "c">>)
     /\ Val(e.shift).args
          = describe.args \o <<CssprocFlag, <<"/", "c", "/", "o">>>>

\* ----------------------------------------------------- targets and registry

\* C16: when the resolver returns, every target is a cache key of the
\* bundle's registry, so a target list that is not empty comes with a
\* registry that is not, and the stop condition of bundleUpdated holds
\* exactly when the target list is empty.
C16_TargetsAreRegistered ==
  \A bd \in Bundles :
    LET e == ev[bd.name]
        n == bd.name
    IN e.inputs =>
         /\ \A i \in 1..Len(e.targets) : ObjHas(BundleMeta(reg, n), e.targets[i])
         /\ e.targets # <<>> => ObjHas(reg, n) /\ BundleMeta(reg, n) # <<>>
         /\ NothingToBuild(reg, n, e.targets) <=> e.targets = <<>>

\* a module and a descriptor are targeted while a rejected module, the
\* meta-module and an unlisted descriptor are not
C16_Witness ==
  LET e == ev[BundleB.name]
  IN /\ e.inputs
     /\ e.files = <<FileN, FileM>>
     /\ e.jsonFiles = <<FileD>>
     /\ e.targets = <<FileD, FileM>>
     /\ ~ObjHas(BundleMeta(reg, BundleB.name), FileN)

\* an event's checks accepted a file, so that its record is registered anew
Reaccepted(e, k) == e.inputs /\ k \in DOMAIN e.chk /\ IsSome(e.chk[k])

\* C17: no step of any event takes a cache key off the registry; a record
\* whose file the event's checks did not accept (rejected, or not listed)
\* stays as an earlier event registered it, and the server view the event
\* compiles holds every variant of such a record that is not a client one.
C17_RegistryOnlyGrows ==
  [][\A bd \in Bundles : \A k \in EventPaths :
       LET n == bd.name
           rec == ObjGet(BundleMeta(reg, n), k)
       IN ObjHas(BundleMeta(reg, n), k) =>
            /\ ObjHas(BundleMeta(reg', n), k)
            /\ ~Reaccepted(ev'[n], k) =>
                 /\ ObjGet(BundleMeta(reg', n), k) = rec
                 /\ ev'[n].pc = "serverCompiled" =>
                      \A i \in 1..Len(rec.builds) :
                        rec.builds[i].val.config.affinity # "client" =>
                          InView(ev'[n].loaderData, rec.name, rec.builds[i])]_vars

\* the second event rejects a module the first one registered, and compiles
\* a server view that still has it
C17_Witness ==
  LET e == ev[BundleB.name]
  IN /\ e.pc = "serverCompiled"
     /\ e.inputs
     /\ FileM \in Range(e.files)
     /\ e.chk[FileM] = None
     /\ ObjHas(BundleMeta(e.regBefore, BundleB.name), FileM)
     /\ ObjHas(Val(e.loaderData).json, Stem(FileM))

\* ------------------------------------------------------------ absent views

\* the server view of the registry an event works on is present
ServerViewPresent(bd) == IsSome(CreateServerLoaderData(reg, bd))

\* what C18 says of the bundle's fields at every moment of an event
AbsentViewKeepsField(bd) ==
  LET e == ev[bd.name]
      now == YuiOrEmpty(yui[bd.name])
      before == YuiOrEmpty(e.yuiBefore)
  IN /\ (HasRun(e, "attachServer") /\ ~ServerViewPresent(bd)) =>
          now.server = before.server
     /\ (e.pc = "serverAttached" /\ ~ServerViewPresent(bd)) =>
          yui[bd.name] = e.yuiBefore
     /\ (HasRun(e, "attachClient") /\ ~ClientViewPresent(bd)) =>
          now.client = before.client

\* C18: when a view compiles to nothing, its attach stage leaves the
\* bundle's field for that view as it was before the event, and the chain
\* goes on: after an absent server view the event reaches the builder
\* unless the write fails, after an absent client view (no write) it always
\* reaches the builder.
C18_AbsentViewKeepsField ==
  /\ [](\A bd \in Bundles : AbsentViewKeepsField(bd))
  /\ \A bd \in Bundles :
       (ev[bd.name].pc = "serverCompiled" /\ ev[bd.name].loaderData = None)
         ~> (IsSome(ev[bd.name].shift) \/ ev[bd.name].error = Some("write"))
  /\ \A bd \in Bundles :
       (ev[bd.name].pc = "clientCompiled" /\ ev[bd.name].loaderData = None)
         ~> IsSome(ev[bd.name].shift)

\* the builder is invoked in an event whose server view was absent, and the
\* server manifest an earlier event attached is still on the bundle
C18_Witness ==
  LET e == ev[BundleB.name]
  IN /\ e.pc = "shifting"
     /\ ~ServerViewPresent(BundleB)
     /\ IsSome(yui[BundleB.name])
     /\ IsSome(Val(yui[BundleB.name]).server)
     /\ Val(yui[BundleB.name]).server = Val(e.yuiBefore).server

\* ------------------------------------------------------ one registry per event

\* the two views of the registry an event's resolve stage left
ServerViewOf(e, bd) == CreateServerLoaderData(e.regResolved, bd)
ClientViewOf(e, bd) == CreateClientLoaderData(e.regResolved, bd, MetaModuleName(bd.name))

\* C19: with the events of a bundle one after the other, and those of other
\* bundles interleaved at will, the server view and the client view an event
\* compiles and attaches are both those of the registry as the event's own
\* resolve stage left it, and the bundle's records are the same at both
\* compilations.
C19_ViewsFromOneRegistry ==
  \A bd \in Bundles :
    LET e == ev[bd.name]
        n == bd.name
    IN /\ e.pc = "serverCompiled" => e.loaderData = ServerViewOf(e, bd)
       /\ e.pc = "clientCompiled" => e.loaderData = ClientViewOf(e, bd)
       /\ e.pc \in {"serverCompiled", "serverAttached", "clientCompiled"} =>
            BundleMeta(reg, n) = BundleMeta(e.regResolved, n)
       /\ (HasRun(e, "attachServer") /\ IsSome(ServerViewOf(e, bd))) =>
            Val(yui[n]).server = Some(Val(ServerViewOf(e, bd)).json)
       /\ (HasRun(e, "attachClient") /\ IsSome(ClientViewOf(e, bd))) =>
            Val(yui[n]).client = Some(Val(ClientViewOf(e, bd)).json)

\* an event has attached both its views although the resolve stage of
\* another bundle's event has written the registry since its own
C19_Witness ==
  LET e == ev[BundleB.name]
  IN /\ e.pc = "clientAttached"
     /\ ~ObjHas(e.regResolved, BundleC.name)
     /\ ObjHas(reg, BundleC.name)
     /\ IsSome(ServerViewOf(e, BundleB)) /\ IsSome(ClientViewOf(e, BundleB))
     /\ Val(yui[BundleB.name]).server = Some(Val(ServerViewOf(e, BundleB)).json)
     /\ Val(yui[BundleB.name]).client = Some(Val(ClientViewOf(e, BundleB)).json)

\* -------------------------------------------------------- bundles apart

\* every module of a compiled view is a record of the bundle, under its
\* name and group, with variants of that record only
OnlyRecordsOf(loaderData, registry, n) ==
  IsSome(loaderData) =>
    LET mods == Modules(Val(loaderData).json, n)
        meta == BundleMeta(registry, n)
    IN \A i \in 1..Len(mods) :
         /\ mods[i].val.group = n
         /\ \E j \in 1..Len(meta) :
              /\ meta[j].val.name = mods[i].key
              /\ Range(mods[i].val.builds) \subseteq Range(meta[j].val.builds)

\* C20: a step of an event of one bundle, whatever the events of the other
\* bundles are doing, leaves the records and the attached fields of every
\* other bundle as they are, and a view it compiles is made of records
\* registered under the event's own bundle only.
C20_BundlesApart ==
  [][\A a \in Bundles :
       /\ ev'[a.name] = ev[a.name] =>
            /\ BundleMeta(reg', a.name) = BundleMeta(reg, a.name)
            /\ ObjHas(reg', a.name) <=> ObjHas(reg, a.name)
            /\ yui'[a.name] = yui[a.name]
       /\ ev'[a.name].pc \in {"serverCompiled", "clientCompiled"} =>
            OnlyRecordsOf(ev'[a.name].loaderData, reg', a.name)]_vars

\* one bundle compiles its server view of a module without affinity while
\* the other has attached its views of the same file, registered as a
\* client module
C20_Witness ==
  /\ ev[BundleB.name].pc = "serverCompiled"
  /\ IsSome(ev[BundleB.name].loaderData)
  /\ ev[BundleC.name].pc = "clientAttached"
  /\ IsSome(yui[BundleC.name])
  /\ ObjHas(BundleMeta(reg, BundleB.name), FileM)
  /\ ObjHas(BundleMeta(reg, BundleC.name), FileM)
  /\ ObjGet(BundleMeta(reg, BundleB.name), FileM)
       # ObjGet(BundleMeta(reg, BundleC.name), FileM)

====
